---- MODULE Spec2Model ----
(***************************************************************************)
(* Model of the completion/synchronisation core of openssh-sftp-client:    *)
(*   - awaitable.rs : Awaitable, a one-shot completion cell                *)
(*                    Arc<Mutex<InnerState<Input, Output>>>                *)
(*   - connection.rs: SharedData (writer mutex, requests_sent counter and  *)
(*                    Notify) and connect                                  *)
(* Every handler is split at the points where another thread can observe   *)
(* it: the acquisition of a lock, the end of a critical section, the drop  *)
(* of a handle, the call of a waker, a suspension point.                   *)
(***************************************************************************)
EXTENDS Integers, Sequences, FiniteSets, TLC

(* ------------------------------ bounds -------------------------------- *)
\* Arc strong count: at most this many handles to one cell exist at once.
MaxHandles == 2
\* Outputs passed to done are drawn from 1..MaxValue.
MaxValue == 2
\* The observation counters (wakes, takes) saturate here.
MaxCount == 3

\* notify_new_packet_event is called at most this many times in a run.
MaxNotify == 3
\* A request is at most this many bytes on the wire.
MaxReqLen == 2
\* At most this many requests are written in a run.
MaxRequests == 3
\* The version in a server's version packet is drawn from 1..MaxVersion.
MaxVersion == 4

\* openssh_sftp_protocol::constants::SSH2_FILEXFER_VERSION
SSH2_FILEXFER_VERSION == 3

\* The cells of the model and the threads that hold handles to each cell.
Cells == {1, 2}
Threads == {"caller", "producer"}
Values == 1..MaxValue
\* The pre-supplied input of a cell (Option<Input>).
Inputs == {"buf"}
\* The tasks that call notify_new_packet_event, and the tasks that write
\* requests; the reader (ReadEnd) is the one task that waits.
Notifiers == {"n1", "n2"}
Writers == {"w1", "w2"}
\* The calls of connect, each on its own reader and writer.
Conns == {"a", "b"}
Versions == 1..MaxVersion
\* What the server side of a connection answers to the hello: a version
\* packet, a packet that is not a version packet, or the end of the stream.
ServerReplies ==
  [kind : {"version"}, version : Versions]
    \cup [kind : {"malformed", "closed"}, version : {0}]

\* Option<T>: None is the empty sequence, Some(x) the one-element sequence.
None == <<>>
Some(x) == <<x>>
NoThread == "none"
\* No done call of the thread is running: it holds no `value` argument.
NoValue == 0

VARIABLES
  \* ---- Awaitable (awaitable.rs) ----
  state,      \* state[c]: the InnerState behind the cell's mutex
  lock,       \* lock[c]: the thread holding the cell's parking_lot mutex
  own,        \* own[c][t]: number of Awaitable handles (Arc clones) t holds
  this,       \* this[c][t]: 1 while t's running done/get_value owns its `self`
  pc,         \* pc[c][t]: where thread t is in its current call on cell c
  value,      \* value[c][t]: the argument `value` of t's running done call,
              \*   moved into the cell by mem::replace
  stored_waker, \* stored_waker[c][t]: the local of that name in done
  ret,        \* ret[c][t]: the operation t last finished on c and its result
  \* ---- observations (history of the run, never read by the handlers) ----
  doneArgs,   \* doneArgs[c]: the values stored by done calls, in order
  doneOk,     \* doneOk[c]: number of done calls that did not panic
  wakes,      \* wakes[c][t]: how often the waker of thread t was invoked
  installed,  \* installed[c]: threads whose install_waker returned false, in order
  knowsDone,  \* knowsDone[c]: threads whose install_waker returned true
  seen,       \* seen[c][t]: outputs stored before t last acquired the lock
  clones,     \* clones[c]: number of clone calls on the cell's handles (0, 1, more)
  takes,      \* takes[c]: number of take_input calls that returned Some
  ranOngoing, \* ranOngoing[c]: a take_input has run while the cell was Ongoing
  input0,     \* input0[c]: the input the cell was created with
  pre,        \* pre[c][t]: which half of get_value's precondition held
              \*   when t called it: "woken", "done" or "none"
  spun,       \* spun[c][t]: t's running get_value has failed a try_unwrap
  order,      \* the cells in the order in which an output was first stored
  \* ---- SharedData (connection.rs): the counting signal ----
  requests_sent, \* the AtomicUsize
  notify,     \* the Notify: "EMPTY", "WAITING" (a waiter is queued) or
              \*   "NOTIFIED" (a permit is stored)
  rpc,        \* where the reader is in wait_for_new_request
  npc,        \* npc[n]: where notifier n is in notify_new_packet_event
  \* ---- observations ----
  increments, \* number of fetch_add(1) performed
  returned,   \* sum of the counts wait_for_new_request has returned
  lastCnt,    \* the count last returned, as an Option
  parked,     \* the reader's current or last call has been suspended
  \* ---- SharedData (connection.rs): the writer ----
  writer_locked, \* the tokio Mutex around the writer is locked
  guard,      \* guard[w]: task w holds a MutexGuard of the writer
  wpos,       \* wpos[w]: bytes of its request w has written
  wreq,       \* wreq[w]: the request w is writing
  wire,       \* the bytes written to the writer, each tagged with the
              \*   request it belongs to and its index in that request
  nreq,       \* number of requests started
  \* ---- connect (connection.rs) ----
  cpc,        \* cpc[k]: where call k of connect is
  result,     \* result[k]: what connect returned: "none", "Ok" or "Err"
  shared_rc,  \* shared_rc[k]: strong count of the Arc<SharedData> made by k
  writer_open, \* writer_open[k]: the writer given to k has not been dropped
  read_end,   \* read_end[k]: where the ReadEnd is: "none", "connect" (a
              \*   local of connect), "caller" (returned) or "dropped"
  write_end,  \* write_end[k]: the same for the WriteEnd
  reply,      \* reply[k]: what the server of k answers to the hello
  hello,      \* hello[k]: the versions of the hello packets the server got
  reply_read, \* reply_read[k]: the server's answer has been read
  \* ---- observations ----
  clog        \* clog[k]: the steps connect has taken, in order

cellVars == <<state, lock, own, this, pc, value, stored_waker, ret, doneArgs,
              doneOk, wakes, installed, knowsDone, seen, clones, takes,
              ranOngoing, input0, pre, spun, order>>

signalVars == <<requests_sent, notify, rpc, npc, increments, returned,
                lastCnt, parked>>

writerVars == <<writer_locked, guard, wpos, wreq, wire, nreq>>

connVars == <<cpc, result, shared_rc, writer_open, read_end, write_end, reply,
              hello, reply_read, clog>>

sharedVars == <<signalVars, writerVars, connVars>>

vars == <<cellVars, signalVars, writerVars, connVars>>

(* ------------------------------ Awaitable ----------------------------- *)
\* InnerState::Ongoing(input, waker)
Ongoing(input, waker) ==
  [tag |-> "Ongoing", input |-> input, waker |-> waker, output |-> None]

\* InnerState::Done(output)
Done(output) ==
  [tag |-> "Done", input |-> None, waker |-> None, output |-> Some(output)]

RECURSIVE SumOver(_, _)
SumOver(f, S) ==
  IF S = {} THEN 0
  ELSE LET t == CHOOSE x \in S : TRUE IN f[t] + SumOver(f, S \ {t})

\* Arc::strong_count of the cell: the handles threads hold, and the `self`
\* of every running call that took its handle by value.
Strong(c) == SumOver(own[c], Threads) + SumOver(this[c], Threads)

Bump(n) == IF n < MaxCount THEN n + 1 ELSE n

Range(s) == {s[i] : i \in 1..Len(s)}

\* Awaitable::new: an Ongoing cell with the given input and no waker.
new(input) == Ongoing(input, None)

\* install_waker with `Done(_) => false`: it never reports completion.
install_waker_match_never_true(st, waker) ==
  IF st.tag = "Ongoing"
  THEN IF st.waker # None
       THEN [panic |-> TRUE, state |-> st, result |-> FALSE]
       ELSE [panic |-> FALSE, state |-> [st EXCEPT !.waker = Some(waker)],
             result |-> FALSE]
  ELSE [panic |-> FALSE, state |-> st, result |-> FALSE]

\* install_waker without the is_some check: a second waker replaces the first.
install_waker_match_overwrite(st, waker) ==
  IF st.tag = "Ongoing"
  THEN [panic |-> FALSE, state |-> [st EXCEPT !.waker = Some(waker)],
        result |-> FALSE]
  ELSE [panic |-> FALSE, state |-> st, result |-> TRUE]

\* The match of install_waker, under the lock.
install_waker_match(st, waker) ==
  IF st.tag = "Ongoing"
  THEN IF st.waker # None
       THEN [panic |-> TRUE, state |-> st, result |-> FALSE]
       ELSE [panic |-> FALSE, state |-> [st EXCEPT !.waker = Some(waker)],
             result |-> FALSE]
  ELSE [panic |-> FALSE, state |-> st, result |-> TRUE]

\* take_input with input.clone() for input.take(): the input stays behind.
take_input_match_keeps(st) ==
  IF st.tag = "Ongoing"
  THEN [state |-> st, result |-> st.input]
  ELSE [state |-> st, result |-> None]

\* take_input with mem::take on the whole state: the state is left as a
\* fresh Ongoing cell, whatever it was.
take_input_match_resets(st) ==
  [state |-> Ongoing(None, None),
   result |-> IF st.tag = "Ongoing" THEN st.input ELSE None]

\* The match of take_input, under the lock: Option::take on the input.
take_input_match(st) ==
  IF st.tag = "Ongoing"
  THEN [state |-> [st EXCEPT !.input = None], result |-> st.input]
  ELSE [state |-> st, result |-> None]

\* done with `Ongoing(_input, _stored_waker) => None`: the waker is dropped.
done_replace_loses_waker(prev_state, v) ==
  [state |-> Done(v), panic |-> prev_state.tag = "Done", stored_waker |-> None]

\* done with `Done(_) => None` for the panic: a second completion goes through.
done_replace_no_panic(prev_state, v) ==
  [state |-> Done(v), panic |-> FALSE,
   stored_waker |-> IF prev_state.tag = "Ongoing" THEN prev_state.waker ELSE None]

\* done with `stored_waker.unwrap()`: a cell nobody waits on makes it panic.
done_replace_requires_waker(prev_state, v) ==
  [state |-> Done(v),
   panic |-> prev_state.tag = "Done" \/ prev_state.waker = None,
   stored_waker |-> IF prev_state.tag = "Ongoing" THEN prev_state.waker ELSE None]

\* The critical section of done: mem::replace, then the match on prev_state.
done_replace(prev_state, v) ==
  [state |-> Done(v), panic |-> prev_state.tag = "Done",
   stored_waker |-> IF prev_state.tag = "Ongoing" THEN prev_state.waker ELSE None]

\* try_unwrap comparing against the handles other than the caller's own: with
\* `this` alive the count is never 0.
try_unwrap_excludes_self(c) == Strong(c) = 0

\* try_unwrap that does not look at the other handles.
try_unwrap_any_count(c) == Strong(c) >= 1

\* Arc::try_unwrap succeeds iff this handle is the only one.
try_unwrap(c) == Strong(c) = 1

\* get_value with the arms of its final match swapped.
get_value_match_swapped(st) == IF st.tag = "Done" THEN None ELSE Some(1)

\* The final match of get_value on the state taken out of the mutex.
get_value_match(st) == IF st.tag = "Done" THEN st.output ELSE None

\* Which half of get_value's documented precondition holds for thread t:
\* its waker has been called, or its install_waker has returned true.
Precondition(c, t) ==
  IF wakes[c][t] > 0 THEN "woken"
  ELSE IF t \in knowsDone[c] THEN "done"
  ELSE "none"

Idle(c, t) == pc[c][t] = "idle" /\ own[c][t] > 0

\* Clone::clone: thread t hands a new handle to thread u.
Clone(c, t, u) ==
  /\ Idle(c, t)
  /\ pc[c][u] # "panicked"
  /\ Strong(c) < MaxHandles
  /\ own' = [own EXCEPT ![c][u] = @ + 1]
  /\ clones' = [clones EXCEPT ![c] = IF @ < 2 THEN @ + 1 ELSE @]
  /\ UNCHANGED <<state, lock, this, pc, value, stored_waker, ret, doneArgs,
                 doneOk, wakes, installed, knowsDone, seen, takes, ranOngoing,
                 input0, pre, spun>>
  /\ UNCHANGED <<order, sharedVars>>

\* Drop of an Awaitable handle (Arc's drop) by a thread that is not in a call.
DropHandle(c, t) ==
  /\ Idle(c, t)
  /\ own' = [own EXCEPT ![c][t] = @ - 1]
  /\ UNCHANGED <<state, lock, this, pc, value, stored_waker, ret, doneArgs,
                 doneOk, wakes, installed, knowsDone, seen, clones, takes,
                 ranOngoing, input0, pre, spun, order>>
  /\ UNCHANGED sharedVars

\* self.0.lock() by thread t, entering the critical section named by `op`.
Acquire(c, t, op) ==
  /\ lock[c] = NoThread
  /\ lock' = [lock EXCEPT ![c] = t]
  /\ pc' = [pc EXCEPT ![c][t] = op]
  /\ seen' = [seen EXCEPT ![c][t] = Len(doneArgs[c])]

\* install_waker, line 36: self.0.lock()
InstallWakerLock(c, t) ==
  /\ Idle(c, t)
  /\ Acquire(c, t, "install_waker")
  /\ UNCHANGED <<state, own, this, value, stored_waker, ret, doneArgs, doneOk,
                 wakes, installed, knowsDone, clones, takes, ranOngoing,
                 input0, pre, spun>>
  /\ UNCHANGED <<order, sharedVars>>

\* install_waker, lines 38-47: the match, then the guard is dropped.  The
\* waker passed is the calling thread's own.  A panic unwinds the thread:
\* the guard and every handle the thread holds are dropped.
InstallWakerMatch(c, t) ==
  /\ pc[c][t] = "install_waker"
  /\ LET r == install_waker_match(state[c], t) IN
       /\ state' = [state EXCEPT ![c] = r.state]
       /\ lock' = [lock EXCEPT ![c] = NoThread]
       /\ IF r.panic
          THEN /\ pc' = [pc EXCEPT ![c][t] = "panicked"]
               /\ own' = [own EXCEPT ![c][t] = 0]
               /\ ret' = [ret EXCEPT ![c][t] =
                            [op |-> "install_waker", val |-> None]]
               /\ UNCHANGED <<installed, knowsDone>>
          ELSE /\ pc' = [pc EXCEPT ![c][t] = "idle"]
               /\ own' = own
               /\ ret' = [ret EXCEPT ![c][t] =
                            [op |-> "install_waker", val |-> Some(r.result)]]
               /\ installed' = [installed EXCEPT ![c] =
                    IF r.result \/ Len(@) >= MaxCount THEN @ ELSE Append(@, t)]
               /\ knowsDone' = [knowsDone EXCEPT ![c] =
                    IF r.result THEN @ \cup {t} ELSE @]
  /\ UNCHANGED <<this, value, stored_waker, doneArgs, doneOk, wakes, seen,
                 clones, takes, ranOngoing, input0, pre, spun>>
  /\ UNCHANGED <<order, sharedVars>>

\* take_input, line 51: self.0.lock()
TakeInputLock(c, t) ==
  /\ Idle(c, t)
  /\ Acquire(c, t, "take_input")
  /\ UNCHANGED <<state, own, this, value, stored_waker, ret, doneArgs, doneOk,
                 wakes, installed, knowsDone, clones, takes, ranOngoing,
                 input0, pre, spun>>
  /\ UNCHANGED <<order, sharedVars>>

\* take_input, lines 53-56: the match, then the guard is dropped.
TakeInputMatch(c, t) ==
  /\ pc[c][t] = "take_input"
  /\ LET r == take_input_match(state[c]) IN
       /\ state' = [state EXCEPT ![c] = r.state]
       /\ ret' = [ret EXCEPT ![c][t] = [op |-> "take_input", val |-> r.result]]
       /\ takes' = [takes EXCEPT ![c] = IF r.result # None THEN Bump(@) ELSE @]
  /\ ranOngoing' = [ranOngoing EXCEPT ![c] = @ \/ state[c].tag = "Ongoing"]
  /\ lock' = [lock EXCEPT ![c] = NoThread]
  /\ pc' = [pc EXCEPT ![c][t] = "idle"]
  /\ UNCHANGED <<own, this, value, stored_waker, doneArgs, doneOk, wakes,
                 installed, knowsDone, seen, clones, input0, pre, spun>>
  /\ UNCHANGED <<order, sharedVars>>

\* done, lines 59-63: the call takes self by value, then self.0.lock()
DoneLock(c, t, v) ==
  /\ Idle(c, t)
  /\ Acquire(c, t, "done")
  /\ own' = [own EXCEPT ![c][t] = @ - 1]
  /\ this' = [this EXCEPT ![c][t] = 1]
  /\ value' = [value EXCEPT ![c][t] = v]
  /\ UNCHANGED <<state, stored_waker, ret, doneArgs, doneOk, wakes, installed,
                 knowsDone, clones, takes, ranOngoing, input0, pre, spun>>
  /\ UNCHANGED <<order, sharedVars>>

\* done, lines 65-71: mem::replace stores Done(value), the match on
\* prev_state panics or yields the stored waker, and the guard is dropped
\* at the end of the block.  A panic unwinds the thread: the guard, self
\* and every other handle the thread holds are dropped.
DoneReplace(c, t) ==
  /\ pc[c][t] = "done"
  /\ LET r == done_replace(state[c], value[c][t]) IN
       /\ state' = [state EXCEPT ![c] = r.state]
       /\ lock' = [lock EXCEPT ![c] = NoThread]
       /\ IF r.panic
          THEN /\ pc' = [pc EXCEPT ![c][t] = "panicked"]
               /\ own' = [own EXCEPT ![c][t] = 0]
               /\ this' = [this EXCEPT ![c][t] = 0]
               /\ ret' = [ret EXCEPT ![c][t] = [op |-> "done", val |-> None]]
               /\ UNCHANGED <<stored_waker, doneOk>>
          ELSE /\ pc' = [pc EXCEPT ![c][t] = "done_drop"]
               /\ stored_waker' = [stored_waker EXCEPT ![c][t] = r.stored_waker]
               /\ doneOk' = [doneOk EXCEPT ![c] = Bump(@)]
               /\ UNCHANGED <<own, this, ret>>
  /\ doneArgs' = [doneArgs EXCEPT ![c] = Append(@, value[c][t])]
  /\ value' = [value EXCEPT ![c][t] = NoValue]
  /\ UNCHANGED <<wakes, installed, knowsDone, seen, clones, takes,
                 ranOngoing, input0, pre, spun>>
  /\ order' = IF c \in Range(order) THEN order ELSE Append(order, c)
  /\ UNCHANGED sharedVars

\* done without line 73: self lives until the call returns, after the wake.
DoneDrop_at_return(c, t) ==
  /\ pc[c][t] = "done_drop"
  /\ pc' = [pc EXCEPT ![c][t] = "done_wake"]
  /\ UNCHANGED <<state, lock, own, this, value, stored_waker, ret, doneArgs,
                 doneOk, wakes, installed, knowsDone, seen, clones, takes,
                 ranOngoing, input0, pre, spun, order>>
  /\ UNCHANGED sharedVars

\* done, line 73: drop(self)
DoneDrop(c, t) ==
  /\ pc[c][t] = "done_drop"
  /\ this' = [this EXCEPT ![c][t] = 0]
  /\ pc' = [pc EXCEPT ![c][t] = "done_wake"]
  /\ UNCHANGED <<state, lock, own, value, stored_waker, ret, doneArgs, doneOk,
                 wakes, installed, knowsDone, seen, clones, takes, ranOngoing,
                 input0, pre, spun>>
  /\ UNCHANGED <<order, sharedVars>>

\* done waking in send order: the waker called is that of the first cell
\* issued whose waker is installed and not yet called, not the cell's own.
DoneWake_send_order(c, t) ==
  /\ pc[c][t] = "done_wake"
  /\ wakes' =
       IF stored_waker[c][t] # None
       THEN LET waiting == {d \in Cells : /\ installed[d] # <<>>
                                          /\ wakes[d][installed[d][1]] = 0}
                d == CHOOSE x \in waiting : \A y \in waiting : x <= y
            IN [wakes EXCEPT ![d][installed[d][1]] = Bump(@)]
       ELSE wakes
  /\ stored_waker' = [stored_waker EXCEPT ![c][t] = None]
  /\ this' = [this EXCEPT ![c][t] = 0]
  /\ ret' = [ret EXCEPT ![c][t] = [op |-> "done", val |-> Some("unit")]]
  /\ value' = [value EXCEPT ![c][t] = NoValue]
  /\ pc' = [pc EXCEPT ![c][t] = "idle"]
  /\ UNCHANGED <<state, lock, own, doneArgs, doneOk, installed, knowsDone,
                 seen, clones, takes, ranOngoing, input0, pre, spun>>
  /\ UNCHANGED <<order, sharedVars>>

\* done, lines 75-77: wake the stored waker, if any, and return; what is
\* left of self is dropped when the call returns.
DoneWake(c, t) ==
  /\ pc[c][t] = "done_wake"
  /\ wakes' = IF stored_waker[c][t] # None
              THEN [wakes EXCEPT ![c][stored_waker[c][t][1]] = Bump(@)]
              ELSE wakes
  /\ stored_waker' = [stored_waker EXCEPT ![c][t] = None]
  /\ this' = [this EXCEPT ![c][t] = 0]
  /\ ret' = [ret EXCEPT ![c][t] = [op |-> "done", val |-> Some("unit")]]
  /\ value' = [value EXCEPT ![c][t] = NoValue]
  /\ pc' = [pc EXCEPT ![c][t] = "idle"]
  /\ UNCHANGED <<state, lock, own, doneArgs, doneOk, installed, knowsDone,
                 seen, clones, takes, ranOngoing, input0, pre, spun>>
  /\ UNCHANGED <<order, sharedVars>>

\* get_value, line 83: the call takes self by value and moves it into `this`.
GetValueCall(c, t) ==
  /\ Idle(c, t)
  /\ pc' = [pc EXCEPT ![c][t] = "get_value"]
  /\ own' = [own EXCEPT ![c][t] = @ - 1]
  /\ this' = [this EXCEPT ![c][t] = 1]
  /\ pre' = [pre EXCEPT ![c][t] = Precondition(c, t)]
  /\ spun' = [spun EXCEPT ![c][t] = FALSE]
  /\ UNCHANGED <<state, lock, value, stored_waker, ret, doneArgs, doneOk,
                 wakes, installed, knowsDone, seen, clones, takes, ranOngoing,
                 input0>>
  /\ UNCHANGED <<order, sharedVars>>

\* get_value, lines 85-86 and 102-105: try_unwrap succeeds, the state is
\* taken out of the mutex (the cell is gone) and matched.
GetValueUnwrap(c, t) ==
  /\ pc[c][t] = "get_value"
  /\ try_unwrap(c)
  /\ this' = [this EXCEPT ![c][t] = 0]
  /\ ret' = [ret EXCEPT ![c][t] =
               [op |-> "get_value", val |-> get_value_match(state[c])]]
  /\ pc' = [pc EXCEPT ![c][t] = "idle"]
  /\ UNCHANGED <<state, lock, own, value, stored_waker, doneArgs, doneOk,
                 wakes, installed, knowsDone, seen, clones, takes, ranOngoing,
                 input0, pre, spun>>
  /\ UNCHANGED <<order, sharedVars>>

\* get_value, lines 95-98: try_unwrap fails, spin and retry.
GetValueSpin(c, t) ==
  /\ pc[c][t] = "get_value"
  /\ ~try_unwrap(c)
  /\ spun' = [spun EXCEPT ![c][t] = TRUE]
  /\ UNCHANGED <<state, lock, own, this, pc, value, stored_waker, ret,
                 doneArgs, doneOk, wakes, installed, knowsDone, seen, clones,
                 takes, ranOngoing, input0, pre>>
  /\ UNCHANGED <<order, sharedVars>>

\* The cells in `live` made by Awaitable::new(input) and cloned so that each
\* thread in `holders` has one handle; the other cells do not exist (no
\* handle).
InitHandles(live, holders) ==
  /\ input0 \in [Cells -> {None} \cup {Some(x) : x \in Inputs}]
  /\ \A c \in Cells \ live : input0[c] = None
  /\ state = [c \in Cells |-> new(input0[c])]
  /\ lock = [c \in Cells |-> NoThread]
  /\ own = [c \in Cells |-> [t \in Threads |->
              IF c \in live /\ t \in holders THEN 1 ELSE 0]]
  /\ this = [c \in Cells |-> [t \in Threads |-> 0]]
  /\ pc = [c \in Cells |-> [t \in Threads |-> "idle"]]
  /\ value = [c \in Cells |-> [t \in Threads |-> NoValue]]
  /\ stored_waker = [c \in Cells |-> [t \in Threads |-> None]]
  /\ ret = [c \in Cells |-> [t \in Threads |-> [op |-> "none", val |-> None]]]
  /\ doneArgs = [c \in Cells |-> <<>>]
  /\ doneOk = [c \in Cells |-> 0]
  /\ wakes = [c \in Cells |-> [t \in Threads |-> 0]]
  /\ installed = [c \in Cells |-> <<>>]
  /\ knowsDone = [c \in Cells |-> {}]
  /\ seen = [c \in Cells |-> [t \in Threads |-> 0]]
  /\ clones = [c \in Cells |->
                 IF c \in live THEN Cardinality(holders) - 1 ELSE 0]
  /\ takes = [c \in Cells |-> 0]
  /\ ranOngoing = [c \in Cells |-> FALSE]
  /\ pre = [c \in Cells |-> [t \in Threads |-> "none"]]
  /\ spun = [c \in Cells |-> [t \in Threads |-> FALSE]]
  /\ order = <<>>

\* The cells in `live` freshly made by Awaitable::new(input), the one handle
\* of each with its caller.
InitCells(live) == InitHandles(live, {"caller"})

\* The steps of a call of connect that returns Ok, in order.
HandshakeSteps ==
  <<"shared_data", "read_end", "write_end", "send_ok", "receive_ok",
    "return_ok">>

\* connect has returned Ok on every connection: both handles are with the
\* caller and hold the two references to the SharedData.
Established ==
  /\ cpc = [k \in Conns |-> "returned"]
  /\ result = [k \in Conns |-> "Ok"]
  /\ shared_rc = [k \in Conns |-> 2]
  /\ writer_open = [k \in Conns |-> TRUE]
  /\ read_end = [k \in Conns |-> "caller"]
  /\ write_end = [k \in Conns |-> "caller"]
  /\ reply = [k \in Conns |->
               [kind |-> "version", version |-> SSH2_FILEXFER_VERSION]]
  /\ hello = [k \in Conns |-> <<SSH2_FILEXFER_VERSION>>]
  /\ reply_read = [k \in Conns |-> TRUE]
  /\ clog = [k \in Conns |-> HandshakeSteps]

\* connect, lines 63-68: the SharedData as constructed.
NewSharedData ==
  /\ requests_sent = 0
  /\ notify = "EMPTY"
  /\ rpc = "idle"
  /\ npc = [n \in Notifiers |-> "idle"]
  /\ increments = 0
  /\ returned = 0
  /\ lastCnt = None
  /\ parked = FALSE
  /\ writer_locked = FALSE
  /\ guard = [w \in Writers |-> FALSE]
  /\ wpos = [w \in Writers |-> 0]
  /\ wreq = [w \in Writers |-> [id |-> 0, len |-> 0]]
  /\ wire = <<>>
  /\ nreq = 0

\* The SharedData of an established connection.
InitSharedData ==
  /\ Established
  /\ NewSharedData

InitAwaitable == InitCells({1}) /\ InitSharedData

NextAwaitable ==
  \E c \in Cells, t \in Threads :
    \/ \E u \in Threads : Clone(c, t, u)
    \/ DropHandle(c, t)
    \/ InstallWakerLock(c, t)
    \/ InstallWakerMatch(c, t)
    \/ TakeInputLock(c, t)
    \/ TakeInputMatch(c, t)
    \/ \E v \in Values : DoneLock(c, t, v)
    \/ DoneReplace(c, t)
    \/ DoneDrop(c, t)
    \/ DoneWake(c, t)
    \/ GetValueCall(c, t)
    \/ GetValueUnwrap(c, t)
    \/ GetValueSpin(c, t)

\* Every interleaving of the Awaitable's operations on one cell.
SpecAwaitable == InitAwaitable /\ [][NextAwaitable]_vars

\* Two requests in flight: each cell was made by its caller and cloned once
\* for the reader loop (the producer), which completes the cells in any
\* order.  The requests carry no input; the caller installs its waker and
\* gets the value, the producer calls done.
InitIssued ==
  /\ InitHandles(Cells, Threads)
  /\ input0 = [c \in Cells |-> None]
  /\ InitSharedData

NextIssued ==
  \E c \in Cells :
    \/ InstallWakerLock(c, "caller")
    \/ InstallWakerMatch(c, "caller")
    \/ GetValueCall(c, "caller")
    \/ GetValueUnwrap(c, "caller")
    \/ GetValueSpin(c, "caller")
    \/ \E v \in Values : DoneLock(c, "producer", v)
    \/ DoneReplace(c, "producer")
    \/ DoneDrop(c, "producer")
    \/ DoneWake(c, "producer")

SpecIssued == InitIssued /\ [][NextIssued]_vars

\* The producer's thread runs its call of done to the end, and the caller's
\* thread keeps running the loop of get_value.
FairIssued ==
  /\ SpecIssued
  /\ \A c \in Cells :
       /\ WF_vars(DoneReplace(c, "producer"))
       /\ WF_vars(DoneDrop(c, "producer"))
       /\ WF_vars(DoneWake(c, "producer"))
       /\ WF_vars(GetValueUnwrap(c, "caller"))

(* ---------------------- SharedData: the counting signal ---------------- *)
\* AtomicUsize::fetch_add(1): the new value of the counter.
fetch_add(n) == n + 1

\* The test of the count swapped out, line 47.
got_requests(cnt) == cnt > 0

\* notify_new_packet_event, line 36: requests_sent.fetch_add(1)
NotifyFetchAdd(n) ==
  /\ npc[n] = "idle"
  /\ increments < MaxNotify
  /\ requests_sent' = fetch_add(requests_sent)
  /\ increments' = increments + 1
  /\ npc' = [npc EXCEPT ![n] = "notify_one"]
  /\ UNCHANGED <<notify, rpc, returned, lastCnt, parked>>
  /\ UNCHANGED <<cellVars, writerVars, connVars>>

\* notify_one that wakes a queued waiter but stores no permit when nobody
\* waits yet.
NotifyOne_no_permit(n) ==
  /\ npc[n] = "notify_one"
  /\ IF notify = "WAITING"
     THEN notify' = "EMPTY" /\ rpc' = "woken"
     ELSE UNCHANGED <<notify, rpc>>
  /\ npc' = [npc EXCEPT ![n] = "idle"]
  /\ UNCHANGED <<requests_sent, increments, returned, lastCnt, parked>>
  /\ UNCHANGED <<cellVars, writerVars, connVars>>

\* notify_new_packet_event, line 40: notify.notify_one().  The queued waiter
\* is taken off the Notify and woken; with no waiter a permit is stored (at
\* most one).
NotifyOne(n) ==
  /\ npc[n] = "notify_one"
  /\ IF notify = "WAITING"
     THEN notify' = "EMPTY" /\ rpc' = "woken"
     ELSE notify' = "NOTIFIED" /\ rpc' = rpc
  /\ npc' = [npc EXCEPT ![n] = "idle"]
  /\ UNCHANGED <<requests_sent, increments, returned, lastCnt, parked>>
  /\ UNCHANGED <<cellVars, writerVars, connVars>>

\* The reader calls wait_for_new_request.
WaitCall ==
  /\ rpc = "idle"
  /\ rpc' = "swap"
  /\ parked' = FALSE
  /\ UNCHANGED <<requests_sent, notify, npc, increments, returned, lastCnt>>
  /\ UNCHANGED <<cellVars, writerVars, connVars>>

\* wait_for_new_request with load for swap: the counter is not cleared.
WaitSwap_load ==
  /\ rpc = "swap"
  /\ IF got_requests(requests_sent)
     THEN /\ rpc' = "idle"
          /\ returned' = returned + requests_sent
          /\ lastCnt' = Some(requests_sent)
     ELSE /\ rpc' = "notified"
          /\ UNCHANGED <<returned, lastCnt>>
  /\ UNCHANGED <<requests_sent, notify, npc, increments, parked>>
  /\ UNCHANGED <<cellVars, writerVars, connVars>>

\* wait_for_new_request, lines 46-49: swap(0), and break with the count if
\* it is positive.
WaitSwap ==
  /\ rpc = "swap"
  /\ requests_sent' = 0
  /\ IF got_requests(requests_sent)
     THEN /\ rpc' = "idle"
          /\ returned' = returned + requests_sent
          /\ lastCnt' = Some(requests_sent)
     ELSE /\ rpc' = "notified"
          /\ UNCHANGED <<returned, lastCnt>>
  /\ UNCHANGED <<notify, npc, increments, parked>>
  /\ UNCHANGED <<cellVars, writerVars, connVars>>

\* wait_for_new_request, line 50: notified().await, first poll.  A stored
\* permit is consumed and the loop goes on; otherwise the reader is queued
\* on the Notify and suspended.
WaitNotified ==
  /\ rpc = "notified"
  /\ IF notify = "NOTIFIED"
     THEN notify' = "EMPTY" /\ rpc' = "swap" /\ parked' = parked
     ELSE notify' = "WAITING" /\ rpc' = "parked" /\ parked' = TRUE
  /\ UNCHANGED <<requests_sent, npc, increments, returned, lastCnt>>
  /\ UNCHANGED <<cellVars, writerVars, connVars>>

\* wait_for_new_request, line 50: the woken reader is polled again, the
\* await completes and the loop goes on.
WaitResume ==
  /\ rpc = "woken"
  /\ rpc' = "swap"
  /\ UNCHANGED <<requests_sent, notify, npc, increments, returned, lastCnt,
                 parked>>
  /\ UNCHANGED <<cellVars, writerVars, connVars>>

ReaderStep == WaitSwap \/ WaitNotified \/ WaitResume

InitSignal == InitCells({}) /\ InitSharedData

NextSignal ==
  \/ \E n \in Notifiers : NotifyFetchAdd(n)
  \/ \E n \in Notifiers : NotifyOne(n)
  \/ WaitCall
  \/ WaitSwap
  \/ WaitNotified
  \/ WaitResume

\* Concurrent notifiers and the one reader.
SpecSignal == InitSignal /\ [][NextSignal]_vars

\* The same, with the scheduling the executor gives: a reader that can run
\* runs, and a notifier that has incremented goes on to notify_one.
FairSignal ==
  /\ SpecSignal
  /\ WF_vars(ReaderStep)
  /\ \A n \in Notifiers : WF_vars(NotifyOne(n))

(* -------------------------- SharedData: the writer --------------------- *)
\* A writer that is not behind a Mutex: any task may take it.
writer_unguarded(locked) == TRUE

\* SharedData.writer is a tokio Mutex<Writer>: lock() completes only while
\* the mutex is unlocked.
writer_lockable(locked) == ~locked

\* A task starts a request of len bytes: writer.lock().await
WriterLock(w, len) ==
  /\ ~guard[w]
  /\ nreq < MaxRequests
  /\ writer_lockable(writer_locked)
  /\ writer_locked' = TRUE
  /\ guard' = [guard EXCEPT ![w] = TRUE]
  /\ nreq' = nreq + 1
  /\ wreq' = [wreq EXCEPT ![w] = [id |-> nreq + 1, len |-> len]]
  /\ wpos' = [wpos EXCEPT ![w] = 0]
  /\ UNCHANGED wire
  /\ UNCHANGED <<cellVars, signalVars, connVars>>

\* The task writes the next byte of its request through its guard.
WriteByte(w) ==
  /\ guard[w]
  /\ wpos[w] < wreq[w].len
  /\ wire' = Append(wire, [id |-> wreq[w].id, len |-> wreq[w].len,
                           index |-> wpos[w] + 1])
  /\ wpos' = [wpos EXCEPT ![w] = @ + 1]
  /\ UNCHANGED <<writer_locked, guard, wreq, nreq>>
  /\ UNCHANGED <<cellVars, signalVars, connVars>>

\* The request is written: the MutexGuard is dropped.
WriterUnlock(w) ==
  /\ guard[w]
  /\ wpos[w] = wreq[w].len
  /\ guard' = [guard EXCEPT ![w] = FALSE]
  /\ writer_locked' = FALSE
  /\ UNCHANGED <<wpos, wreq, wire, nreq>>
  /\ UNCHANGED <<cellVars, signalVars, connVars>>

InitWriter == InitCells({}) /\ InitSharedData

NextWriter ==
  \E w \in Writers :
    \/ \E len \in 1..MaxReqLen : WriterLock(w, len)
    \/ WriteByte(w)
    \/ WriterUnlock(w)

\* Concurrent tasks writing requests through SharedData.writer.
SpecWriter == InitWriter /\ [][NextWriter]_vars

(* ------------------------------- connect ------------------------------ *)
\* ReadEnd::receive_server_version(version): the packet read must be a
\* version packet carrying the version the client sent.
receive_server_version(r, version) ==
  r.kind = "version" /\ r.version = version

\* Drop of one Arc<SharedData>: the new strong count.
arc_drop(rc) == rc - 1

\* The writer lives in the SharedData (line 27): it is dropped, and with
\* that closed, when the last reference goes.
writer_after(rc, open) == open /\ rc > 0

\* A `?` of connect returns the error: the locals read_end and write_end are
\* dropped, and with them the SharedData and its writer.
ErrReturn(k) ==
  /\ cpc' = [cpc EXCEPT ![k] = "returned"]
  /\ result' = [result EXCEPT ![k] = "Err"]
  /\ read_end' = [read_end EXCEPT ![k] = "dropped"]
  /\ write_end' = [write_end EXCEPT ![k] = "dropped"]
  /\ shared_rc' = [shared_rc EXCEPT ![k] = arc_drop(arc_drop(@))]
  /\ writer_open' = [writer_open EXCEPT ![k] =
                       writer_after(arc_drop(arc_drop(shared_rc[k])), @)]

\* connect, lines 63-68: Arc::new(SharedData { writer: Mutex::new(writer), .. })
ConnectNew(k) ==
  /\ cpc[k] = "new"
  /\ shared_rc' = [shared_rc EXCEPT ![k] = 1]
  /\ cpc' = [cpc EXCEPT ![k] = "read_end"]
  /\ clog' = [clog EXCEPT ![k] = Append(@, "shared_data")]
  /\ UNCHANGED <<result, writer_open, read_end, write_end, reply, hello,
                 reply_read>>
  /\ UNCHANGED <<cellVars, signalVars, writerVars>>

\* connect with ReadEnd::new(reader, Arc::downgrade(&shared_data)): the read
\* handle holds no strong reference.
ConnectReadEnd_weak(k) ==
  /\ cpc[k] = "read_end"
  /\ read_end' = [read_end EXCEPT ![k] = "connect"]
  /\ cpc' = [cpc EXCEPT ![k] = "write_end"]
  /\ clog' = [clog EXCEPT ![k] = Append(@, "read_end")]
  /\ UNCHANGED <<result, shared_rc, writer_open, write_end, reply, hello,
                 reply_read>>
  /\ UNCHANGED <<cellVars, signalVars, writerVars>>

\* connect, line 70: ReadEnd::new(reader, shared_data.clone())
ConnectReadEnd(k) ==
  /\ cpc[k] = "read_end"
  /\ shared_rc' = [shared_rc EXCEPT ![k] = @ + 1]
  /\ read_end' = [read_end EXCEPT ![k] = "connect"]
  /\ cpc' = [cpc EXCEPT ![k] = "write_end"]
  /\ clog' = [clog EXCEPT ![k] = Append(@, "read_end")]
  /\ UNCHANGED <<result, writer_open, write_end, reply, hello, reply_read>>
  /\ UNCHANGED <<cellVars, signalVars, writerVars>>

\* connect, line 71: WriteEnd::new(shared_data), the reference is moved.
ConnectWriteEnd(k) ==
  /\ cpc[k] = "write_end"
  /\ write_end' = [write_end EXCEPT ![k] = "connect"]
  /\ cpc' = [cpc EXCEPT ![k] = "send_hello"]
  /\ clog' = [clog EXCEPT ![k] = Append(@, "write_end")]
  /\ UNCHANGED <<result, shared_rc, writer_open, read_end, reply, hello,
                 reply_read>>
  /\ UNCHANGED <<cellVars, signalVars, writerVars>>

\* connect with `let _ = write_end.send_hello(..).await;`: a failed send is
\* not returned and the reply is read all the same.
ConnectSendHello_ignores_error(k, ok) ==
  /\ cpc[k] = "send_hello"
  /\ hello' = [hello EXCEPT ![k] =
                 IF ok THEN Append(@, SSH2_FILEXFER_VERSION) ELSE @]
  /\ cpc' = [cpc EXCEPT ![k] = "receive"]
  /\ clog' = [clog EXCEPT ![k] = Append(@, IF ok THEN "send_ok" ELSE "send_err")]
  /\ UNCHANGED <<result, shared_rc, writer_open, read_end, write_end, reply,
                 reply_read>>
  /\ UNCHANGED <<cellVars, signalVars, writerVars>>

\* connect, lines 74-76: write_end.send_hello(version, ..).await?  The write
\* to the transport succeeds (ok) or fails; on failure `?` returns the error.
ConnectSendHello(k, ok) ==
  /\ cpc[k] = "send_hello"
  /\ IF ok
     THEN /\ hello' = [hello EXCEPT ![k] = Append(@, SSH2_FILEXFER_VERSION)]
          /\ cpc' = [cpc EXCEPT ![k] = "receive"]
          /\ clog' = [clog EXCEPT ![k] = Append(@, "send_ok")]
          /\ UNCHANGED <<result, shared_rc, writer_open, read_end, write_end>>
     ELSE /\ ErrReturn(k)
          /\ clog' = [clog EXCEPT ![k] = Append(@, "send_err")]
          /\ hello' = hello
  /\ UNCHANGED <<reply, reply_read>>
  /\ UNCHANGED <<cellVars, signalVars, writerVars>>

\* connect with `let _ = read_end.receive_server_version(..).await;`: the
\* outcome of the validation is not returned.
ConnectReceive_ignores_error(k) ==
  /\ cpc[k] = "receive"
  /\ reply_read' = [reply_read EXCEPT ![k] = TRUE]
  /\ cpc' = [cpc EXCEPT ![k] = "return"]
  /\ clog' = [clog EXCEPT ![k] = Append(@,
       IF receive_server_version(reply[k], SSH2_FILEXFER_VERSION)
       THEN "receive_ok" ELSE "receive_err")]
  /\ UNCHANGED <<result, shared_rc, writer_open, read_end, write_end, reply,
                 hello>>
  /\ UNCHANGED <<cellVars, signalVars, writerVars>>

\* connect, line 77: read_end.receive_server_version(version).await?  The
\* server's answer is read and validated; on failure `?` returns the error.
ConnectReceive(k) ==
  /\ cpc[k] = "receive"
  /\ reply_read' = [reply_read EXCEPT ![k] = TRUE]
  /\ IF receive_server_version(reply[k], SSH2_FILEXFER_VERSION)
     THEN /\ cpc' = [cpc EXCEPT ![k] = "return"]
          /\ clog' = [clog EXCEPT ![k] = Append(@, "receive_ok")]
          /\ UNCHANGED <<result, shared_rc, writer_open, read_end, write_end>>
     ELSE /\ ErrReturn(k)
          /\ clog' = [clog EXCEPT ![k] = Append(@, "receive_err")]
  /\ UNCHANGED <<reply, hello>>
  /\ UNCHANGED <<cellVars, signalVars, writerVars>>

\* connect, line 79: Ok((write_end, read_end)), both handles go to the caller.
ConnectReturn(k) ==
  /\ cpc[k] = "return"
  /\ cpc' = [cpc EXCEPT ![k] = "returned"]
  /\ result' = [result EXCEPT ![k] = "Ok"]
  /\ read_end' = [read_end EXCEPT ![k] = "caller"]
  /\ write_end' = [write_end EXCEPT ![k] = "caller"]
  /\ clog' = [clog EXCEPT ![k] = Append(@, "return_ok")]
  /\ UNCHANGED <<shared_rc, writer_open, reply, hello, reply_read>>
  /\ UNCHANGED <<cellVars, signalVars, writerVars>>

\* The caller drops the WriteEnd, and with it one reference to the SharedData.
DropWriteEnd(k) ==
  /\ write_end[k] = "caller"
  /\ write_end' = [write_end EXCEPT ![k] = "dropped"]
  /\ shared_rc' = [shared_rc EXCEPT ![k] = arc_drop(@)]
  /\ writer_open' = [writer_open EXCEPT ![k] =
                       writer_after(arc_drop(shared_rc[k]), @)]
  /\ UNCHANGED <<cpc, result, read_end, reply, hello, reply_read, clog>>
  /\ UNCHANGED <<cellVars, signalVars, writerVars>>

\* The caller drops the ReadEnd, and with it one reference to the SharedData.
DropReadEnd(k) ==
  /\ read_end[k] = "caller"
  /\ read_end' = [read_end EXCEPT ![k] = "dropped"]
  /\ shared_rc' = [shared_rc EXCEPT ![k] = arc_drop(@)]
  /\ writer_open' = [writer_open EXCEPT ![k] =
                       writer_after(arc_drop(shared_rc[k]), @)]
  /\ UNCHANGED <<cpc, result, write_end, reply, hello, reply_read, clog>>
  /\ UNCHANGED <<cellVars, signalVars, writerVars>>

\* connect has been called on each connection with an open reader and
\* writer; the server's answer is any of ServerReplies.
InitConnect ==
  /\ InitCells({})
  /\ NewSharedData
  /\ cpc = [k \in Conns |-> "new"]
  /\ result = [k \in Conns |-> "none"]
  /\ shared_rc = [k \in Conns |-> 0]
  /\ writer_open = [k \in Conns |-> TRUE]
  /\ read_end = [k \in Conns |-> "none"]
  /\ write_end = [k \in Conns |-> "none"]
  /\ reply \in [Conns -> ServerReplies]
  /\ hello = [k \in Conns |-> <<>>]
  /\ reply_read = [k \in Conns |-> FALSE]
  /\ clog = [k \in Conns |-> <<>>]

NextConnect ==
  \E k \in Conns :
    \/ ConnectNew(k)
    \/ ConnectReadEnd(k)
    \/ ConnectWriteEnd(k)
    \/ \E ok \in BOOLEAN : ConnectSendHello(k, ok)
    \/ ConnectReceive(k)
    \/ ConnectReturn(k)
    \/ DropWriteEnd(k)
    \/ DropReadEnd(k)

\* Calls of connect against every kind of server, and the callers dropping
\* the handles they got.
SpecConnect == InitConnect /\ [][NextConnect]_vars

(* ------------------------- claims on the Awaitable --------------------- *)
\* Some done call's mem::replace has stored an output in cell c.
Stored(c) == doneArgs[c] # <<>>

\* A running done call on cell c holds the waker of w and has yet to call it.
WakePending(c, w) ==
  \E t \in Threads :
    pc[c][t] \in {"done_drop", "done_wake"} /\ stored_waker[c][t] = Some(w)

\* Thread t is between calls and the call it last finished on c was `op`.
Finished(c, t, op) == pc[c][t] = "idle" /\ ret[c][t].op = op

\* C1: an install_waker call returns false when it acquired the cell's lock
\* before any done call stored an output, and true when it acquired the
\* lock after a done call had stored one.
C1_InstallWakerResult ==
  \A c \in Cells, t \in Threads :
    Finished(c, t, "install_waker") => ret[c][t].val = Some(seen[c][t] > 0)

\* C1 witness: on one cell, one install_waker call has returned false and
\* another, made after done, has returned true.
C1_Witness ==
  \E c \in Cells, t, u \in Threads :
    /\ Finished(c, t, "install_waker") /\ ret[c][t].val = Some(FALSE)
    /\ Finished(c, u, "install_waker") /\ ret[c][u].val = Some(TRUE)
    /\ Stored(c)

\* C2: no lost wake-up.  A waker is called at most once, and only after its
\* install_waker returned false and a done call stored the output; once
\* both have happened the waker either has been called exactly once or is
\* held by the running done call that is about to call it.
C2_NoLostWakeup ==
  \A c \in Cells, w \in Threads :
    /\ wakes[c][w] <= 1
    /\ wakes[c][w] > 0 => (w \in Range(installed[c]) /\ Stored(c))
    /\ (w \in Range(installed[c]) /\ Stored(c))
         => ((wakes[c][w] = 1) # WakePending(c, w))

\* C2 witness: a waker was installed, a done call has returned, and the
\* waker has been called once.
C2_Witness ==
  \E c \in Cells, w, t \in Threads :
    /\ w \in Range(installed[c])
    /\ Finished(c, t, "done")
    /\ wakes[c][w] = 1

\* C3: when done is about to call the waker, the output is stored, done has
\* released the lock and its own handle is dropped; so when only one clone
\* of the cell was ever made (one caller handle, one producer handle), a
\* get_value called after the waker fired finds its handle to be the only
\* one and never spins.
C3_WakeAfterStoreUnlockDrop ==
  \A c \in Cells, t \in Threads :
    /\ pc[c][t] = "done_wake"
         => (state[c].tag = "Done" /\ lock[c] # t /\ this[c][t] = 0)
    /\ (pre[c][t] = "woken" /\ clones[c] <= 1)
         => (~spun[c][t] /\ (pc[c][t] = "get_value" => try_unwrap(c)))

\* C3 witness: with one clone made, a thread woken by done has called
\* get_value and got the output.
C3_Witness ==
  \E c \in Cells, t \in Threads :
    /\ pre[c][t] = "woken" /\ clones[c] = 1
    /\ Finished(c, t, "get_value") /\ ret[c][t].val # None

\* C4: a get_value called under its precondition returns Some(v), v the
\* value passed to done on that cell (the last one stored, should done have
\* been called more than once).
C4_GetValueReturnsOutput ==
  \A c \in Cells, t \in Threads :
    (ret[c][t].op = "get_value" /\ pre[c][t] # "none")
      => /\ Stored(c)
         /\ ret[c][t].val = Some(doneArgs[c][Len(doneArgs[c])])

\* C4 witness: get_value was called after install_waker returned true, spun
\* until done dropped its handle, and returned the output of the one done.
C4_Witness ==
  \E c \in Cells, t \in Threads :
    /\ Finished(c, t, "get_value") /\ pre[c][t] = "done" /\ spun[c][t]
    /\ Len(doneArgs[c]) = 1 /\ ret[c][t].val = Some(doneArgs[c][1])

\* C5: of the done calls that reach the cell, the first completes it and
\* every later one panics: no cell is completed successfully twice.
C5_DoubleDonePanics ==
  \A c \in Cells :
    /\ doneOk[c] = (IF Stored(c) THEN 1 ELSE 0)
    /\ Cardinality({t \in Threads :
                      pc[c][t] = "panicked" /\ ret[c][t].op = "done"})
         = Len(doneArgs[c]) - doneOk[c]

\* C5 witness: a second done call was made on a cell and panicked.
C5_Witness ==
  \E c \in Cells, t \in Threads :
    /\ Len(doneArgs[c]) >= 2
    /\ pc[c][t] = "panicked" /\ ret[c][t].op = "done"

\* C6: at most one install_waker call on a cell ever returns false; while
\* the cell is Ongoing it holds exactly the waker installed by that call,
\* and an install_waker that panicked found the cell Ongoing with a waker.
C6_SecondInstallPanics ==
  \A c \in Cells :
    /\ Len(installed[c]) <= 1
    /\ state[c].tag = "Ongoing"
         => state[c].waker =
              (IF installed[c] = <<>> THEN None ELSE Some(installed[c][1]))
    /\ \A t \in Threads :
         /\ (Finished(c, t, "install_waker") /\ seen[c][t] = 0)
              => installed[c] = <<t>>
         /\ (pc[c][t] = "panicked" /\ ret[c][t].op = "install_waker")
              => (installed[c] # <<>> /\ seen[c][t] = 0)

\* C6 witness: a second install_waker on a still Ongoing cell has panicked.
C6_Witness ==
  \E c \in Cells, t \in Threads :
    /\ pc[c][t] = "panicked" /\ ret[c][t].op = "install_waker"
    /\ state[c].tag = "Ongoing" /\ Len(installed[c]) = 1

\* C7: the take_input calls on a cell created with input x return Some(x)
\* exactly once if any of them has run while the cell was Ongoing (the
\* first such call gets it) and never otherwise; a call that acquired the
\* lock after done returns None.
C7_TakeInputOnce ==
  \A c \in Cells :
    /\ takes[c] = (IF ranOngoing[c] /\ input0[c] # None THEN 1 ELSE 0)
    /\ \A t \in Threads :
         /\ (ret[c][t].op = "take_input" /\ ret[c][t].val # None)
              => ret[c][t].val = input0[c]
         /\ (Finished(c, t, "take_input") /\ seen[c][t] > 0)
              => ret[c][t].val = None

\* C7 witness: the input was taken once, and a take_input made after done
\* has returned None.
C7_Witness ==
  \E c \in Cells, t \in Threads :
    /\ takes[c] = 1 /\ input0[c] # None
    /\ Finished(c, t, "take_input") /\ seen[c][t] > 0 /\ ret[c][t].val = None

(* --------------------- claims on the counting signal ------------------- *)
\* C8: the counts returned so far plus the current requests_sent equal the
\* number of increments performed (so the returned counts sum to N once the
\* counter is drained), and wait_for_new_request never returns 0.
C8_SignalConservation ==
  /\ returned + requests_sent = increments
  /\ lastCnt # Some(0)

\* C8 witness: every one of MaxNotify signals has been made and all have
\* been returned, over more than one wait_for_new_request call.
C8_Witness ==
  /\ increments = MaxNotify /\ returned = increments /\ requests_sent = 0
  /\ lastCnt # None /\ lastCnt # Some(returned)
  /\ rpc = "idle" /\ \A n \in Notifiers : npc[n] = "idle"

\* C9: whenever the reader is inside wait_for_new_request and an increment
\* has not yet been returned, the call eventually returns.
C9_NoLostNotification ==
  (rpc # "idle" /\ increments > returned) ~> (rpc = "idle")

\* C9 witness: the reader was suspended in its call, was woken by a
\* notify_one and has returned a count.
C9_Witness ==
  rpc = "idle" /\ parked /\ lastCnt # None /\ returned = increments

(* -------------------------- claims on the writer ----------------------- *)
\* C10: at most one task holds the writer, and the bytes of each request
\* stand on the wire in order and next to each other: every byte but the
\* first of a request directly follows the byte before it of that request.
C10_WriteExclusive ==
  /\ Cardinality({w \in Writers : guard[w]}) <= 1
  /\ \A i \in 1..Len(wire) :
       \/ wire[i].index = 1
       \/ (i > 1 /\ wire[i - 1] = [wire[i] EXCEPT !.index = @ - 1])

\* C10 witness: two tasks have each written a whole request of more than
\* one byte.
C10_Witness ==
  /\ \E i, j \in 1..Len(wire) :
       /\ wire[i].id # wire[j].id
       /\ wire[i].index = wire[i].len /\ wire[i].len > 1
       /\ wire[j].index = wire[j].len /\ wire[j].len > 1
  /\ \E w, x \in Writers : w # x /\ wreq[w].id > 0 /\ wreq[x].id > 0
  /\ \A w \in Writers : ~guard[w]

(* ----------------------- claims on two cells in flight ----------------- *)
\* C11: with two requests in flight, completed in any order, a caller is
\* woken only by the completion of its own cell and is woken once that
\* completion has run, whatever the state of the other cell; and its
\* get_value returns the value passed to done on its own cell.
C11_OutOfOrderIsolation ==
  \A c \in Cells :
    /\ wakes[c]["caller"] > 0 => Stored(c)
    /\ (installed[c] # <<>> /\ Stored(c) /\ ~WakePending(c, "caller"))
         => wakes[c]["caller"] = 1
    /\ (Finished(c, "caller", "get_value") /\ pre[c]["caller"] # "none")
         => (Len(doneArgs[c]) = 1 /\ ret[c]["caller"].val = Some(doneArgs[c][1]))

\* C11 witness: cell 2 was completed before cell 1, with different values,
\* and each caller, woken, has got the value of its own cell.
C11_Witness ==
  /\ order = <<2, 1>>
  /\ doneArgs[1] # doneArgs[2]
  /\ \A c \in Cells :
       /\ Finished(c, "caller", "get_value") /\ pre[c]["caller"] = "woken"
       /\ ret[c]["caller"].val = Some(doneArgs[c][1])

(* ----------------------------- cancellation ---------------------------- *)
\* C13: done panics only on a cell that was already Done when it took the
\* lock, never because the caller's handle (with or without a waker) is
\* gone; and once done has returned its own handle is released, so that when
\* no other handle is held the cell has no handle left.
C13_Cancellation ==
  \A c \in Cells, t \in Threads :
    /\ (pc[c][t] = "panicked" /\ ret[c][t].op = "done") => seen[c][t] > 0
    /\ (/\ Finished(c, t, "done")
        /\ own[c][t] = 0
        /\ \A u \in Threads \ {t} : own[c][u] = 0 /\ this[c][u] = 0)
         => Strong(c) = 0

\* C13 witness: the caller installed its waker and dropped its handle
\* without getting the value; the producer's done, the only completion of
\* the cell, has returned and no handle is left.
C13_Witness ==
  /\ Finished(1, "producer", "done")
  /\ Len(doneArgs[1]) = 1
  /\ installed[1] = <<"caller">>
  /\ Finished(1, "caller", "install_waker")
  /\ own[1]["caller"] = 0
  /\ Strong(1) = 0

(* --------------------------- state transitions ------------------------- *)
\* C14: a cell that is Done stays Done in every step: no operation moves its
\* state back to Ongoing.
C14_OnlyOngoingToDone ==
  [][\A c \in Cells : state[c].tag = "Done" => state'[c].tag = "Done"]_vars

\* C14 witness: on a Done cell, take_input and install_waker have both run
\* after the completion, and the cell is still Done.
C14_Witness ==
  /\ state[1].tag = "Done"
  /\ \E t, u \in Threads :
       /\ Finished(1, t, "take_input") /\ seen[1][t] > 0
       /\ Finished(1, u, "install_waker") /\ seen[1][u] > 0

(* ------------------------ termination of get_value --------------------- *)
\* C16: a get_value called under its precondition while done has stored the
\* output and still holds its handle eventually returns that output, once
\* the producer, scheduled fairly, has dropped the handle.
C16_GetValueTerminates ==
  \A c \in Cells :
    (/\ pc[c]["caller"] = "get_value"
     /\ pre[c]["caller"] # "none"
     /\ pc[c]["producer"] = "done_drop")
      ~> (/\ Finished(c, "caller", "get_value")
          /\ ret[c]["caller"].val = Some(doneArgs[c][1]))

\* C16 witness: get_value, called after install_waker had returned true,
\* found the producer's handle alive, retried, and has returned the output.
C16_Witness ==
  \E c \in Cells :
    /\ Finished(c, "caller", "get_value")
    /\ pre[c]["caller"] = "done"
    /\ spun[c]["caller"]
    /\ wakes[c]["caller"] = 0
    /\ ret[c]["caller"].val = Some(doneArgs[c][1])

(* -------------------------- rejected completion ------------------------ *)
\* C18: the output stored in a cell is the value of the first done on it in
\* every later state, also after a second done has been rejected, and no
\* get_value returns any other value.
C18_RejectedDoneLeavesCell ==
  \A c \in Cells :
    /\ state[c].tag = "Done" => state[c].output = Some(doneArgs[c][1])
    /\ \A t \in Threads :
         (Finished(c, t, "get_value") /\ ret[c][t].val # None)
           => ret[c][t].val = Some(doneArgs[c][1])

(* ------------------- invariant of the counting signal ------------------ *)
\* C19: whenever the reader is suspended on the Notify inside
\* wait_for_new_request, the counter is 0, or the Notify holds a stored
\* permit, or some notifier has incremented the counter and has not yet
\* called notify_one.
C19_ParkedHasWakeupPending ==
  rpc = "parked" =>
    \/ requests_sent = 0
    \/ notify = "NOTIFIED"
    \/ \E n \in Notifiers : npc[n] = "notify_one"

\* C19 witness: the reader is suspended while the counter is positive; the
\* notifier that incremented it is about to call notify_one.
C19_Witness ==
  /\ rpc = "parked"
  /\ requests_sent > 0
  /\ \E n \in Notifiers : npc[n] = "notify_one"

(* --------------------------- get_value alone --------------------------- *)
\* C20: a step of get_value (a retry or the return) never changes the
\* cell's state; get_value returns only from a state where its own handle
\* is the only handle of the cell, and then it returns None exactly when the
\* cell is Ongoing.
C20_GetValueSoleOwner ==
  [][\A c \in Cells, t \in Threads :
       pc[c][t] = "get_value" =>
         /\ (pc'[c][t] # "get_value" \/ spun'[c][t] # spun[c][t])
              => state'[c] = state[c]
         /\ pc'[c][t] # "get_value"
              => /\ Strong(c) = 1
                 /\ this[c][t] = 1
                 /\ ret'[c][t].op = "get_value"
                 /\ ret'[c][t].val = None <=> state[c].tag = "Ongoing"]_vars

\* C20 witness: get_value found another handle alive and retried; that
\* handle was dropped with the cell still Ongoing, and get_value, then the
\* sole owner, has returned None.
C20_Witness ==
  \E t \in Threads :
    /\ Finished(1, t, "get_value")
    /\ spun[1][t]
    /\ state[1].tag = "Ongoing"
    /\ ret[1][t].val = None
    /\ Strong(1) = 0

(* ------------------------------ handshake ------------------------------ *)
\* The runs of connect: the full handshake, a failed send, a failed receive.
ConnectRuns ==
  {HandshakeSteps,
   <<"shared_data", "read_end", "write_end", "send_err">>,
   <<"shared_data", "read_end", "write_end", "send_ok", "receive_err">>}

IsPrefix(p, q) == Len(p) <= Len(q) /\ SubSeq(q, 1, Len(p)) = p

\* The handles of connection k that exist.
LiveEnds(k) ==
  (IF read_end[k] \in {"connect", "caller"} THEN 1 ELSE 0)
    + (IF write_end[k] \in {"connect", "caller"} THEN 1 ELSE 0)

\* C12: connect returns Ok, and its caller gets a handle, only when the
\* hello was sent and the reply read was a version packet with the
\* client's version; once the send or the validated receive has failed,
\* connect has returned Err and both handles are dropped, never returned.
C12_HandshakeFailure ==
  \A k \in Conns :
    /\ result[k] = "Ok"
         => /\ hello[k] = <<SSH2_FILEXFER_VERSION>>
            /\ reply_read[k]
            /\ reply[k] = [kind |-> "version", version |-> SSH2_FILEXFER_VERSION]
    /\ (read_end[k] = "caller" \/ write_end[k] = "caller") => result[k] = "Ok"
    /\ (reply_read[k] /\ reply[k].kind # "version") => result[k] = "Err"
    /\ (reply_read[k] /\ reply[k].version # SSH2_FILEXFER_VERSION)
         => result[k] = "Err"
    /\ (cpc[k] = "returned" /\ hello[k] = <<>>) => result[k] = "Err"
    /\ result[k] = "Err"
         => /\ cpc[k] = "returned"
            /\ read_end[k] = "dropped" /\ write_end[k] = "dropped"

\* C12 witness: one server answered the hello with another version, one
\* connection failed to send; both calls have returned Err and no handle.
C12_Witness ==
  \E k, j \in Conns :
    /\ reply[k].kind = "version" /\ reply[k].version # SSH2_FILEXFER_VERSION
    /\ hello[k] = <<SSH2_FILEXFER_VERSION>> /\ reply_read[k]
    /\ result[k] = "Err"
    /\ read_end[k] = "dropped" /\ write_end[k] = "dropped"
    /\ hello[j] = <<>> /\ result[j] = "Err"

\* C15: against a server that answers with the client's version, a connect
\* whose hello was sent returns Ok with both handles; the strong count of
\* the SharedData is the number of handles that exist, 2 when both do; the
\* writer is open while a handle exists and closed once there is none.
C15_SharedLifetime ==
  \A k \in Conns :
    /\ (/\ cpc[k] = "returned"
        /\ hello[k] # <<>>
        /\ receive_server_version(reply[k], SSH2_FILEXFER_VERSION))
         => result[k] = "Ok"
    /\ (cpc[k] = "returned" /\ result[k] = "Ok")
         => /\ read_end[k] \in {"caller", "dropped"}
            /\ write_end[k] \in {"caller", "dropped"}
            /\ shared_rc[k] = LiveEnds(k)
            /\ writer_open[k] <=> LiveEnds(k) > 0

\* C15 witness: on one established connection both handles have been
\* dropped and the writer is closed; on the other only the write handle
\* has been dropped and the writer is still open.
C15_Witness ==
  \E k, j \in Conns :
    /\ result[k] = "Ok"
    /\ read_end[k] = "dropped" /\ write_end[k] = "dropped"
    /\ shared_rc[k] = 0 /\ ~writer_open[k]
    /\ result[j] = "Ok"
    /\ read_end[j] = "caller" /\ write_end[j] = "dropped"
    /\ shared_rc[j] = 1 /\ writer_open[j]

\* C17: the steps of connect are a prefix of: build the SharedData, the read
\* handle and the write handle, send the hello, receive the version, return
\* the handles; the run ends at a failed send or a failed receive.  The
\* reply is read only after the hello was sent, and a handle is with the
\* caller only after the receive succeeded.
C17_HandshakeOrdering ==
  \A k \in Conns :
    /\ \E run \in ConnectRuns : IsPrefix(clog[k], run)
    /\ reply_read[k] => (hello[k] # <<>> /\ "send_ok" \in Range(clog[k]))
    /\ hello[k] # <<>>
         => (read_end[k] # "none" /\ write_end[k] # "none")
    /\ "send_err" \in Range(clog[k]) => (~reply_read[k] /\ hello[k] = <<>>)
    /\ (read_end[k] = "caller" \/ write_end[k] = "caller" \/ result[k] = "Ok")
         => "receive_ok" \in Range(clog[k])

\* C17 witness: one call has gone through the whole handshake; the other
\* failed to send its hello and returned without reading the reply, which
\* was a matching version packet.
C17_Witness ==
  \E k, j \in Conns :
    /\ clog[k] = HandshakeSteps /\ result[k] = "Ok"
    /\ clog[j] = <<"shared_data", "read_end", "write_end", "send_err">>
    /\ result[j] = "Err" /\ ~reply_read[j]
    /\ receive_server_version(reply[j], SSH2_FILEXFER_VERSION)

====
